---- MODULE Spec2Model ----
(***************************************************************************)
(* Model of devtriage's test-runner detection and focus selection          *)
(* (src/src/devtriage/runners.py), with the CLI flags of                   *)
(* src/src/devtriage/cli.py.                                               *)
(*                                                                         *)
(* Representation of Python values:                                        *)
(*   - Optional[T]   : <<>> is None, <<x>> is the value x.                 *)
(*   - text of a file: a sequence of tokens; "needle in text" is token     *)
(*                     membership (substring search at token granularity). *)
(*   - a path string : the sequence of its "/"-separated segments; a       *)
(*                     segment is the sequence of its "."-separated parts; *)
(*                     a part is the sequence of its "_"-separated words.  *)
(*                     "tests/test_foo.py" is                              *)
(*                     << <<<<"tests">>>>, << <<"test","foo">>, <<"py">> >> >> *)
(*   - a raised exception: the name of the exception class.                *)
(***************************************************************************)
EXTENDS Integers, Sequences, FiniteSets, TLC

VARIABLES
    args,          \* argparse namespace: runner, pytest, auto, k
    pkg,           \* package.json of the working directory
    markers,       \* marker file name -> state of that file
    git,           \* what `git diff --name-only HEAD` does in this directory
    disk,          \* the candidate test files that exist on disk
    pc,            \* position of the running operation
    runner,        \* focus_command's local `runner` (Optional)
    tests,         \* the mapper's result / focus_command's local `tests`
    command,       \* build_runner_command's result (Optional argv)
    returns,       \* values returned by detect_test_runner since the last write
    writes,        \* number of writes made to the working directory
    detectorCalls, \* number of calls of detect_test_runner in this run
    executed,      \* argvs handed to cmd_run, in order
    message,       \* diagnostic lines printed by focus_command, in order
    envs,          \* two environments handed to sanitize_env
    sanitized      \* what sanitize_env returned for each (Optional)

vars == <<args, pkg, markers, git, disk, pc, runner, tests, command,
          returns, writes, detectorCalls, executed, message, envs, sanitized>>

----------------------------------------------------------------------------
(* Bounds *)

MaxWrites == 2
MaxCalls == 2
MaxTargets == 2
MaxChanged == 2
MaxFocusChanged == 2
MaxEnvKeys == 2

----------------------------------------------------------------------------
(* Python values *)

None == <<>>
Some(x) == <<x>>
IsNone(o) == o = <<>>
Val(o) == o[1]

\* a string with no "/", "." or "_" in it, as a path string
Str(w) == << << <<w>> >> >>
EmptyStr == Str("")

\* truthiness of an Optional[str]: None and "" are falsy
StrTruthy(o) == o # None /\ Val(o) # EmptyStr

Contains(text, needle) == \E i \in DOMAIN text : text[i] = needle

Last(s) == s[Len(s)]
Front(s) == SubSeq(s, 1, Len(s) - 1)

RECURSIVE SeqsUpTo(_, _)
SeqsUpTo(S, n) ==
    IF n = 0 THEN {<<>>}
    ELSE LET shorter == SeqsUpTo(S, n - 1)
         IN  shorter \cup {Append(s, x) : s \in {t \in shorter : Len(t) = n - 1}, x \in S}

SUPPORTED_RUNNERS == <<"pytest", "nose", "jest", "mocha">>
Supported == {SUPPORTED_RUNNERS[i] : i \in DOMAIN SUPPORTED_RUNNERS}

----------------------------------------------------------------------------
(* The working directory: package.json and the marker files *)

MarkerNames == {"pytest.ini", "conftest.py", "tox.ini", "setup.cfg",
                "pyproject.toml", "nose.cfg"}

Absent == [state |-> "absent", text |-> <<>>]
Unreadable == [state |-> "unreadable", text |-> <<>>]
Readable(t) == [state |-> "readable", text |-> t]

\* Path.exists(): true of a file that is there, readable or not
Exists(f) == f.state # "absent"

\* runners.py:26-30
file_contains(f, needle) ==
    IF f.state = "readable" THEN Contains(f.text, needle) ELSE FALSE

(* package.json: absent, unreadable, not JSON, or a JSON value.  A JSON     *)
(* value that is no object is "falsy" (null, false, 0, "", []) or "truthy" *)
(* ([1], "x", 1, true).  A member of an object is missing, falsy, a        *)
(* non-empty mapping, or a truthy value that is no mapping.                *)
Missing == [t |-> "missing"]
Falsy == [t |-> "falsy"]
NonMap == [t |-> "nonmap"]
DepMap(keys) == [t |-> "map", keys |-> keys]
\* a scripts mapping: script name -> Optional[text]; None is a value that is
\* no string (a number, null, a list)
ScriptMap(m) == [t |-> "map", m |-> m]

PkgAbsent == [kind |-> "absent"]
PkgUnreadable == [kind |-> "unreadable"]
PkgMalformed == [kind |-> "malformed"]
PkgFalsy == [kind |-> "falsy"]
PkgTruthyNonObject == [kind |-> "truthy"]
PkgObject(other, s, d, dd) ==
    [kind |-> "object", other |-> other, scripts |-> s,
     dependencies |-> d, devDependencies |-> dd]

\* bool(package_json) of a JSON object: it has at least one member
ObjectTruthy(p) ==
    \/ p.other
    \/ p.scripts.t # "missing"
    \/ p.dependencies.t # "missing"
    \/ p.devDependencies.t # "missing"

\* runners.py:16-23: {} unless the file is there and parses
read_package_json(p) ==
    IF p.kind \in {"absent", "unreadable", "malformed"}
    THEN PkgObject(FALSE, Missing, Missing, Missing)
    ELSE p

\* `x.get(key) or {}` : a missing or falsy member becomes {}
OrEmpty(v) == IF v.t \in {"missing", "falsy"} THEN [t |-> "map", keys |-> {}] ELSE v
OrEmptyScripts(v) == IF v.t \in {"missing", "falsy"} THEN [t |-> "map", m |-> <<>>] ELSE v

\* " ".join(values): the texts joined, a " " token between two of them
RECURSIVE JoinTexts(_)
JoinTexts(vs) ==
    IF vs = <<>> THEN <<>>
    ELSE IF Len(vs) = 1 THEN Val(vs[1])
    ELSE Val(vs[1]) \o <<" ">> \o JoinTexts(Tail(vs))

ScriptValues(m) == [i \in DOMAIN m |-> m[i].value]

\* runners.py:35-45: the manifest branch; "next" when it falls through
ManifestRunner(package_json) ==
    IF package_json.kind = "falsy" THEN "next"
    ELSE IF package_json.kind = "truthy" THEN "AttributeError"
    ELSE IF ~ObjectTruthy(package_json) THEN "next"
    ELSE
      LET scripts == OrEmptyScripts(package_json.scripts)
          deps == OrEmpty(package_json.dependencies)
          devDeps == OrEmpty(package_json.devDependencies)
      IN  IF deps.t = "nonmap" \/ devDeps.t = "nonmap" THEN "TypeError"
          ELSE IF scripts.t = "nonmap" THEN "AttributeError"
          ELSE IF \E i \in DOMAIN scripts.m : IsNone(scripts.m[i].value)
               THEN "TypeError"
          ELSE
            LET dependencies == deps.keys \cup devDeps.keys
                script_blob == JoinTexts(ScriptValues(scripts.m))
            IN  IF "jest" \in dependencies \/ Contains(script_blob, "jest")
                THEN "jest"
                ELSE IF "mocha" \in dependencies \/ Contains(script_blob, "mocha")
                THEN "mocha"
                ELSE "next"

pytest_markers == <<"pytest.ini", "conftest.py", "tox.ini", "setup.cfg", "pyproject.toml">>
\* a scan for nose that leaves setup.cfg out
nose_markers_without_setup_cfg == <<"nose.cfg", "tox.ini">>

nose_markers == <<"nose.cfg", "setup.cfg", "tox.ini">>

\* runners.py:53-59: does the marker at position i return "pytest"?
PytestMarkerMatches(ms, i) ==
    LET name == pytest_markers[i]
    IN  /\ Exists(ms[name])
        /\ IF name \in {"setup.cfg", "tox.ini", "pyproject.toml"}
           THEN file_contains(ms[name], "pytest")
           ELSE TRUE

\* runners.py:61-63
NoseMarkerMatches(ms, i) ==
    LET name == nose_markers[i]
    IN  Exists(ms[name]) /\ file_contains(ms[name], "nosetests")

\* a fallback to the last runner scanned for instead of pytest
DefaultRunnerNose == "nose"

\* runners.py:64
DefaultRunner == "pytest"

\* runners.py:46-64: the marker scans
MarkerRunner(ms) ==
    IF \E i \in DOMAIN pytest_markers : PytestMarkerMatches(ms, i) THEN "pytest"
    ELSE IF \E i \in DOMAIN nose_markers : NoseMarkerMatches(ms, i) THEN "nose"
    ELSE DefaultRunner

\* runners.py:33-64: a runner, or the exception that leaves the function
detect_test_runner(p, ms) ==
    LET m == ManifestRunner(read_package_json(p))
    IN  IF m = "next" THEN MarkerRunner(ms) ELSE m

Raised(r) == r \in {"AttributeError", "TypeError"}

----------------------------------------------------------------------------
(* Directory states the detection is run on *)

PytestText == <<"[", "pytest", "]">>
NoseText == <<"[", "nosetests", "]", "verbosity=2">>
Texts == {<<>>, PytestText, NoseText, PytestText \o NoseText}

FileStates == {Absent, Unreadable} \cup {Readable(t) : t \in Texts}

Script(name, value) == [name |-> name, value |-> value]

ScriptsVals ==
    {Missing, Falsy, NonMap,
     ScriptMap(<<Script("test", Some(<<"jest">>))>>),
     ScriptMap(<<Script("lint", Some(<<"eslint", " ", ".">>)),
                 Script("ci", Some(<<"mocha", " ", "--reporter", " ", "spec">>))>>),
     ScriptMap(<<Script("lint", Some(<<"eslint", " ", ".">>))>>),
     ScriptMap(<<Script("test", None)>>)}

DepVals == {Missing, Falsy, NonMap, DepMap({"jest"}), DepMap({"mocha"}), DepMap({"left-pad"})}
DevDepVals == {Missing, NonMap, DepMap({"jest"})}

Packages ==
    {PkgAbsent, PkgUnreadable, PkgMalformed, PkgFalsy, PkgTruthyNonObject,
     PkgObject(TRUE, Missing, Missing, Missing)}
    \cup {PkgObject(FALSE, s, d, dd) : s \in ScriptsVals, d \in DepVals, dd \in DevDepVals}

EmptyMarkers == [n \in MarkerNames |-> Absent]

NoArgs == [runner |-> None, pytest |-> FALSE, auto |-> FALSE, k |-> None]
GitOk(out) == [status |-> "ok", out |-> out, err |-> <<>>]

----------------------------------------------------------------------------
(* SpecDetect: detect_test_runner called again and again on a working       *)
(* directory that is written to between the calls                          *)

InitDetect ==
    /\ pkg = PkgAbsent
    /\ markers = EmptyMarkers
    /\ returns = <<>>
    /\ writes = 0
    /\ args = NoArgs
    /\ git = GitOk(<<>>)
    /\ disk = {}
    /\ pc = "detect"
    /\ runner = None
    /\ tests = <<>>
    /\ command = None
    /\ detectorCalls = 0
    /\ executed = <<>>
    /\ message = <<>>
    /\ envs = <<>>
    /\ sanitized = None

DetectIdle == <<args, git, disk, pc, runner, tests, command, detectorCalls, executed, message,
                envs, sanitized>>

\* a call of detect_test_runner(); it keeps nothing between calls
DetectCall ==
    /\ pc = "detect"
    /\ Len(returns) < MaxCalls
    /\ returns' = Append(returns, detect_test_runner(pkg, markers))
    /\ UNCHANGED <<pkg, markers, writes>>
    /\ UNCHANGED DetectIdle

\* the environment writes, replaces or removes package.json
WritePackageJson ==
    /\ pc = "detect"
    /\ writes < MaxWrites
    /\ \E p \in Packages : p # pkg /\ pkg' = p
    /\ writes' = writes + 1
    /\ returns' = <<>>
    /\ UNCHANGED markers
    /\ UNCHANGED DetectIdle

\* the environment writes, replaces, removes or locks a marker file
WriteMarker ==
    /\ pc = "detect"
    /\ writes < MaxWrites
    /\ \E n \in MarkerNames, f \in FileStates :
          /\ f # markers[n]
          /\ markers' = [markers EXCEPT ![n] = f]
    /\ writes' = writes + 1
    /\ returns' = <<>>
    /\ UNCHANGED pkg
    /\ UNCHANGED DetectIdle

NextDetect == DetectCall \/ WritePackageJson \/ WriteMarker

SpecDetect == InitDetect /\ [][NextDetect]_vars

----------------------------------------------------------------------------
(* Claims about detect_test_runner, under SpecDetect *)

AllReturns(r) == \A i \in DOMAIN returns : returns[i] = r

\* C1: detect_test_runner() never fails: whatever package.json and the marker
\* files are, every call returns one of pytest, nose, jest, mocha and raises
\* nothing.
C1_DetectNeverFails == \A i \in DOMAIN returns : returns[i] \in Supported

JestDeclared ==
    /\ pkg.kind = "object"
    /\ \/ pkg.dependencies.t = "map" /\ "jest" \in pkg.dependencies.keys
       \/ pkg.devDependencies.t = "map" /\ "jest" \in pkg.devDependencies.keys

\* C2: whenever package.json declares jest as a key of dependencies or
\* devDependencies, every call returns jest, whatever the marker files are.
C2_JestDependencyWins == JestDeclared => AllReturns("jest")

NoEvidence == pkg.kind = "absent" /\ \A n \in MarkerNames : markers[n].state = "absent"

\* C3: with no package.json and none of the six marker files, every call
\* returns pytest, so repeated calls with no write between them agree.
C3_DefaultIsPytest == NoEvidence => AllReturns("pytest")

\* C3 witness: two calls in a row on a directory emptied again after a write
C3_Witness == NoEvidence /\ writes > 0 /\ Len(returns) >= 2 /\ AllReturns("pytest")

SetupCfgHasNosetests ==
    /\ markers["setup.cfg"].state = "readable"
    /\ Contains(markers["setup.cfg"].text, "nosetests")

NoPytestEvidence ==
    /\ markers["pytest.ini"].state = "absent"
    /\ markers["conftest.py"].state = "absent"
    /\ \A n \in {"tox.ini", "setup.cfg", "pyproject.toml"} :
          ~(markers[n].state = "readable" /\ Contains(markers[n].text, "pytest"))

\* C4 as stated: with a setup.cfg containing [nosetests] and no package.json,
\* every call returns nose.
C4_SetupCfgNoseOriginal ==
    (pkg.kind = "absent" /\ SetupCfgHasNosetests) => AllReturns("nose")

\* C4 amended: with a setup.cfg containing [nosetests], no package.json, and
\* no pytest evidence (no pytest.ini, no conftest.py, and no tox.ini, setup.cfg
\* or pyproject.toml containing "pytest"), every call returns nose.
C4_SetupCfgNose ==
    (pkg.kind = "absent" /\ SetupCfgHasNosetests /\ NoPytestEvidence) => AllReturns("nose")

\* C4 witness: the directory of the test, setup.cfg = "[nosetests] verbosity=2",
\* after a call
C4_Witness ==
    /\ pkg.kind = "absent"
    /\ markers = [EmptyMarkers EXCEPT !["setup.cfg"] = Readable(NoseText)]
    /\ Len(returns) >= 1
    /\ AllReturns("nose")

----------------------------------------------------------------------------
(* Command assembly *)

\* runners.py:115-116, 122-123, 129-130, 136-137: `if expression: cmd += [flag, expression]`
FilterPair(flag, expression) ==
    IF StrTruthy(expression) THEN <<Str(flag), Val(expression)>> ELSE <<>>

\* an assembler that puts the targets before the filter pair
build_runner_command_targets_first(r, ts, expression) ==
    IF r = Some("pytest")
    THEN Some(<<Str("pytest"), Str("-q")>> \o ts \o FilterPair("-k", expression))
    ELSE IF r = Some("nose")
    THEN Some(<<Str("nosetests")>> \o ts \o FilterPair("-m", expression))
    ELSE IF r = Some("jest")
    THEN Some(<<Str("npx"), Str("jest")>> \o ts \o FilterPair("--testNamePattern", expression))
    ELSE IF r = Some("mocha")
    THEN Some(<<Str("npx"), Str("mocha")>> \o ts \o FilterPair("--grep", expression))
    ELSE None

\* an assembler with no branch for mocha
build_runner_command_no_mocha(r, ts, expression) ==
    IF r = Some("pytest")
    THEN Some(<<Str("pytest"), Str("-q")>> \o FilterPair("-k", expression) \o ts)
    ELSE IF r = Some("nose")
    THEN Some(<<Str("nosetests")>> \o FilterPair("-m", expression) \o ts)
    ELSE IF r = Some("jest")
    THEN Some(<<Str("npx"), Str("jest")>> \o FilterPair("--testNamePattern", expression) \o ts)
    ELSE None

\* an assembler with no branch for nose
build_runner_command_no_nose(r, ts, expression) ==
    IF r = Some("pytest")
    THEN Some(<<Str("pytest"), Str("-q")>> \o FilterPair("-k", expression) \o ts)
    ELSE IF r = Some("jest")
    THEN Some(<<Str("npx"), Str("jest")>> \o FilterPair("--testNamePattern", expression) \o ts)
    ELSE IF r = Some("mocha")
    THEN Some(<<Str("npx"), Str("mocha")>> \o FilterPair("--grep", expression) \o ts)
    ELSE None

\* runners.py:112-141; `if tests: cmd += tests` appends nothing for []
build_runner_command(r, ts, expression) ==
    IF r = Some("pytest")
    THEN Some(<<Str("pytest"), Str("-q")>> \o FilterPair("-k", expression) \o ts)
    ELSE IF r = Some("nose")
    THEN Some(<<Str("nosetests")>> \o FilterPair("-m", expression) \o ts)
    ELSE IF r = Some("jest")
    THEN Some(<<Str("npx"), Str("jest")>> \o FilterPair("--testNamePattern", expression) \o ts)
    ELSE IF r = Some("mocha")
    THEN Some(<<Str("npx"), Str("mocha")>> \o FilterPair("--grep", expression) \o ts)
    ELSE None

----------------------------------------------------------------------------
(* Paths *)

Word(w) == <<w>>
Segment(w) == <<Word(w)>>
TestsDir == Segment("tests")
DunderTestsDir == << <<"", "", "tests", "", "">> >>

\* PurePath.suffix: the text from the last "." on, unless that "." starts or
\* ends the name; the part after the dot, Word("") when there is none
HasSuffix(name) ==
    /\ Len(name) >= 2
    /\ Last(name) # Word("")
    /\ ~(Len(name) = 2 /\ name[1] = Word(""))
Suffix(file) == IF HasSuffix(Last(file)) THEN Last(Last(file)) ELSE Word("")

\* PurePath.stem: the name without its suffix, as its "."-separated parts
Stem(file) == IF HasSuffix(Last(file)) THEN Front(Last(file)) ELSE Last(file)

\* runners.py:12-13
PYTHON_TEST_EXTENSIONS == {Word("py")}
JS_TEST_EXTENSIONS == {Word("js"), Word("jsx"), Word("ts"), Word("tsx")}

\* stem.startswith("test_"), stem.endswith("_test")
StartsWithTest(stem) == Len(stem[1]) >= 2 /\ stem[1][1] = "test"
EndsWithTest(stem) == Len(Last(stem)) >= 2 /\ Last(Last(stem)) = "test"

\* "tests" in file.parts
InParts(file, segment) == \E i \in DOMAIN file : file[i] = segment

\* ".test." in file.name: a part "test" with a dot on either side
NameHasDotTestDot(file) ==
    LET name == Last(file)
    IN  \E i \in DOMAIN name : 1 < i /\ i < Len(name) /\ name[i] = Word("test")

\* Path(line): empty and "." segments are dropped
DotSegment == <<Word(""), Word("")>>
PathOf(line) == SelectSeq(line, LAMBDA seg : seg # Segment("") /\ seg # DotSegment)

\* a first candidate named like the second one
TestPrefixCandidateMisnamed(stem) ==
    <<TestsDir, Front(stem) \o <<Last(stem) \o <<"test">>>> \o <<Word("py")>> >>

\* runners.py:84: Path("tests") / f"test_{stem}.py"
TestPrefixCandidate(stem) ==
    <<TestsDir, <<<<"test">> \o stem[1]>> \o Tail(stem) \o <<Word("py")>> >>
\* runners.py:85: Path("tests") / f"{stem}_test.py"
TestSuffixCandidate(stem) ==
    <<TestsDir, Front(stem) \o <<Last(stem) \o <<"test">>>> \o <<Word("py")>> >>
\* runners.py:106: Path("tests") / f"{file.stem}.test{file.suffix}"
DotTestCandidate(file) ==
    <<TestsDir, Stem(file) \o <<Word("test")>> \o <<Suffix(file)>> >>

----------------------------------------------------------------------------
(* Changed files and their tests *)

\* git is not installed: subprocess.run raises FileNotFoundError
GitMissing == [status |-> "missing", out |-> <<>>, err |-> <<>>]
\* git exits non-zero (not a repository, no HEAD): nothing on stdout, the
\* complaint on stderr
GitFailed == [status |-> "failed", out |-> <<>>,
              err |-> <<Str("warning: Not a git repository")>>]

\* capture.py:20-39: (returncode, stdout, stderr) of the git query, or the
\* exception subprocess.run raises
run_cmd(g) ==
    [raised |-> g.status = "missing",
     returncode |-> IF g.status = "ok" THEN 0 ELSE 129,
     stdout |-> g.out,
     stderr |-> g.err]

\* runners.py:70: the non-blank lines of the output, each as a Path
PathsOfLines(out) ==
    LET lines == SelectSeq(out, LAMBDA line : line # EmptyStr)
    IN  [i \in DOMAIN lines |-> PathOf(lines[i])]

\* a query that reads the paths from stdout and stderr together
get_git_changed_files_with_stderr(g) ==
    IF run_cmd(g).raised THEN <<>>
    ELSE PathsOfLines(run_cmd(g).stdout \o run_cmd(g).stderr)

\* runners.py:67-72: run_cmd raising is caught; the exit code is not looked at
get_git_changed_files(g) ==
    IF run_cmd(g).raised THEN <<>>
    ELSE PathsOfLines(run_cmd(g).stdout)

\* runners.py:80
IsPythonTest(file) ==
    \/ InParts(file, TestsDir)
    \/ StartsWithTest(Stem(file))
    \/ EndsWithTest(Stem(file))

\* a classification that does not look for a __tests__ directory
IsJsTestWithoutDunder(file) ==
    \/ NameHasDotTestDot(file)
    \/ StartsWithTest(Stem(file))
    \/ EndsWithTest(Stem(file))
    \/ InParts(file, TestsDir)

\* runners.py:97-103
IsJsTest(file) ==
    \/ NameHasDotTestDot(file)
    \/ StartsWithTest(Stem(file))
    \/ EndsWithTest(Stem(file))
    \/ InParts(file, DunderTestsDir)
    \/ InParts(file, TestsDir)

\* runners.py:78-89: the list `tests` as the loop leaves it
RECURSIVE ScanPython(_, _)
ScanPython(files, dk) ==
    IF files = <<>> THEN <<>>
    ELSE LET file == Head(files)
             candidates == <<TestPrefixCandidate(Stem(file)), TestSuffixCandidate(Stem(file))>>
             found == IF IsPythonTest(file) THEN <<file>>
                      ELSE SelectSeq(candidates, LAMBDA c : c \in dk)
         IN  found \o ScanPython(Tail(files), dk)

\* runners.py:96-108
RECURSIVE ScanJs(_, _)
ScanJs(files, dk) ==
    IF files = <<>> THEN <<>>
    ELSE LET file == Head(files)
             found == IF IsJsTest(file) THEN <<file>>
                      ELSE IF DotTestCandidate(file) \in dk THEN <<DotTestCandidate(file)>>
                      ELSE <<>>
         IN  found \o ScanJs(Tail(files), dk)

\* a return of the scanned list as it is
DedupNone(list) == list

\* runners.py:90, 109: list(dict.fromkeys(tests))
RECURSIVE Dedup(_)
Dedup(list) ==
    IF list = <<>> THEN <<>>
    ELSE LET d == Dedup(Front(list))
         IN  IF Contains(d, Last(list)) THEN d ELSE Append(d, Last(list))

\* runners.py:76
PythonFiles(g) == SelectSeq(get_git_changed_files(g), LAMBDA f : Suffix(f) \in PYTHON_TEST_EXTENSIONS)
\* runners.py:94
JsFiles(g) == SelectSeq(get_git_changed_files(g), LAMBDA f : Suffix(f) \in JS_TEST_EXTENSIONS)

\* runners.py:75-90
find_changed_python_tests(g, dk) == Dedup(ScanPython(PythonFiles(g), dk))

\* runners.py:93-109
find_changed_js_tests(g, dk) == Dedup(ScanJs(JsFiles(g), dk))

----------------------------------------------------------------------------
(* Inputs of the mappers and of the assembler *)

File(stem, ext) == <<stem, Word(ext)>>

SrcFooPy == <<Segment("src"), File(<<"foo">>, "py")>>
TestsTestFooPy == <<TestsDir, File(<<"test", "foo">>, "py")>>
TestsFooTestPy == <<TestsDir, File(<<"foo", "test">>, "py")>>
SrcTestBarPy == <<Segment("src"), File(<<"test", "bar">>, "py")>>
ReadmeMd == <<File(<<"README">>, "md")>>
SrcFooJs == <<Segment("src"), File(<<"foo">>, "js")>>
SrcFooTs == <<Segment("src"), File(<<"foo">>, "ts")>>
TestsFooTestJs == <<TestsDir, <<Word("foo"), Word("test"), Word("js")>> >>
TestsFooTestTs == <<TestsDir, <<Word("foo"), Word("test"), Word("ts")>> >>
DunderFooTs == <<Segment("src"), DunderTestsDir, File(<<"foo">>, "ts")>>
ATestJs == << <<Word("a"), Word("test"), Word("js")>> >>
TestsTestAPy == <<TestsDir, File(<<"test", "a">>, "py")>>
SrcTestBarJs == <<Segment("src"), File(<<"test", "bar">>, "js")>>
SrcBarTestJsx == <<Segment("src"), File(<<"bar", "test">>, "jsx")>>
TestsHelperTsx == <<TestsDir, File(<<"helper">>, "tsx")>>
SrcFooMjs == <<Segment("src"), File(<<"foo">>, "mjs")>>

ChangedLines == {SrcFooPy, TestsTestFooPy, TestsFooTestPy, SrcTestBarPy, ReadmeMd,
                 SrcFooJs, SrcFooTs, TestsFooTestJs, DunderFooTs,
                 ATestJs, SrcTestBarJs, SrcBarTestJsx, TestsHelperTsx, SrcFooMjs}
DiskFiles == {TestsTestFooPy, TestsFooTestPy, TestsFooTestJs, TestsFooTestTs}

GitStates(n) == {GitMissing, GitFailed} \cup {GitOk(out) : out \in SeqsUpTo(ChangedLines, n)}

RunnerInputs == {None, Some("unittest"), Some("Pytest"), Some("")}
                \cup {Some(r) : r \in Supported}
TargetPool == {TestsTestAPy, ATestJs, TestsFooTestTs}
Expressions == {None, Some(EmptyStr), Some(Str("slow")), Some(Str("foo"))}

----------------------------------------------------------------------------
(* SpecMap: one call of a mapper on a changed-file list and a disk *)

InitMap ==
    /\ git \in GitStates(MaxChanged)
    /\ disk \in SUBSET DiskFiles
    /\ pc = "map"
    /\ tests = <<>>
    /\ pkg = PkgAbsent
    /\ markers = EmptyMarkers
    /\ returns = <<>>
    /\ writes = 0
    /\ args = NoArgs
    /\ runner = None
    /\ command = None
    /\ detectorCalls = 0
    /\ executed = <<>>
    /\ message = <<>>
    /\ envs = <<>>
    /\ sanitized = None

MapIdle == <<args, pkg, markers, git, disk, runner, command, returns, writes,
             detectorCalls, executed, message, envs, sanitized>>

FindPythonCall ==
    /\ pc = "map"
    /\ tests' = find_changed_python_tests(git, disk)
    /\ pc' = "python"
    /\ UNCHANGED MapIdle

FindJsCall ==
    /\ pc = "map"
    /\ tests' = find_changed_js_tests(git, disk)
    /\ pc' = "js"
    /\ UNCHANGED MapIdle

NextMap == FindPythonCall \/ FindJsCall

SpecMap == InitMap /\ [][NextMap]_vars

----------------------------------------------------------------------------
(* SpecBuild: one call of build_runner_command *)

InitBuild ==
    /\ runner \in RunnerInputs
    /\ tests \in SeqsUpTo(TargetPool, MaxTargets)
    /\ args \in {[NoArgs EXCEPT !.k = e] : e \in Expressions}
    /\ pc = "build"
    /\ command = None
    /\ pkg = PkgAbsent
    /\ markers = EmptyMarkers
    /\ returns = <<>>
    /\ writes = 0
    /\ git = GitOk(<<>>)
    /\ disk = {}
    /\ detectorCalls = 0
    /\ executed = <<>>
    /\ message = <<>>
    /\ envs = <<>>
    /\ sanitized = None

BuildCall ==
    /\ pc = "build"
    /\ command' = build_runner_command(runner, tests, args.k)
    /\ pc' = "built"
    /\ UNCHANGED <<args, pkg, markers, git, disk, runner, tests, returns, writes,
                   detectorCalls, executed, message, envs, sanitized>>

NextBuild == BuildCall

SpecBuild == InitBuild /\ [][NextBuild]_vars

----------------------------------------------------------------------------
(* Claims about build_runner_command, under SpecBuild *)

C5_Prefix(r) ==
    CASE r = "pytest" -> <<Str("pytest"), Str("-q")>>
      [] r = "nose" -> <<Str("nosetests")>>
      [] r = "jest" -> <<Str("npx"), Str("jest")>>
      [] r = "mocha" -> <<Str("npx"), Str("mocha")>>

C5_Flag(r) ==
    CASE r = "pytest" -> Str("-k")
      [] r = "nose" -> Str("-m")
      [] r = "jest" -> Str("--testNamePattern")
      [] r = "mocha" -> Str("--grep")

ExpressionGiven == args.k # None /\ Val(args.k) # EmptyStr

RunnerSupported == runner # None /\ Val(runner) \in Supported

\* C5: for each of the four runners, every target list and every expression,
\* the command is exactly the runner's prefix, then [flag, expression] if and
\* only if the expression is non-empty, then all targets in their order.
C5_CommandExact ==
    (pc = "built" /\ RunnerSupported) =>
        command = Some(C5_Prefix(Val(runner))
                       \o (IF ExpressionGiven THEN <<C5_Flag(Val(runner)), Val(args.k)>> ELSE <<>>)
                       \o tests)

\* C5 witness: build_command("jest", ["a.test.js"], "foo")
C5_Witness ==
    /\ pc = "built"
    /\ runner = Some("jest")
    /\ tests = <<ATestJs>>
    /\ args.k = Some(Str("foo"))
    /\ command = Some(<<Str("npx"), Str("jest"), Str("--testNamePattern"), Str("foo"), ATestJs>>)

\* C6: a runner outside pytest, nose, jest, mocha gets no command (None) for
\* all targets and expressions; a runner inside gets a non-empty argument list.
C6_NoneIffUnsupported ==
    pc = "built" =>
        IF RunnerSupported
        THEN command # None /\ Len(Val(command)) > 0
        ELSE command = None

\* C6 witness: an unsupported runner with targets and an expression
C6_Witness ==
    /\ pc = "built"
    /\ runner = Some("unittest")
    /\ tests # <<>>
    /\ ExpressionGiven
    /\ command = None

----------------------------------------------------------------------------
(* Claims about the mappers, under SpecMap *)

C7_Scan ==
    IF pc = "python" THEN ScanPython(PythonFiles(git), disk)
    ELSE ScanJs(JsFiles(git), disk)

FirstIndex(s, x) == CHOOSE i \in DOMAIN s : s[i] = x /\ \A j \in 1..(i - 1) : s[j] # x

\* C7: the output of either mapper has no duplicate path, holds exactly the
\* paths the scan of the changed files met, and orders them by their first
\* occurrence in that scan.
C7_NoDuplicatesFirstSeenOrder ==
    pc \in {"python", "js"} =>
        /\ \A i, j \in DOMAIN tests : i # j => tests[i] # tests[j]
        /\ {tests[i] : i \in DOMAIN tests} = {C7_Scan[i] : i \in DOMAIN C7_Scan}
        /\ \A i, j \in DOMAIN tests :
              i < j => FirstIndex(C7_Scan, tests[i]) < FirstIndex(C7_Scan, tests[j])

\* C7 witness: a changed test file that is also the companion of a changed
\* source file, met twice by the scan and returned once
C7_Witness ==
    /\ pc = "python"
    /\ git = GitOk(<<SrcFooPy, TestsTestFooPy>>)
    /\ disk = {TestsTestFooPy, TestsFooTestPy}
    /\ C7_Scan = <<TestsTestFooPy, TestsFooTestPy, TestsTestFooPy>>
    /\ tests = <<TestsTestFooPy, TestsFooTestPy>>

\* C8 as stated: changed files ["src/foo.py"] and tests/test_foo.py on disk
\* give ["tests/test_foo.py"].
C8_CompanionOriginal ==
    (pc = "python" /\ git = GitOk(<<SrcFooPy>>) /\ TestsTestFooPy \in disk)
        => tests = <<TestsTestFooPy>>

\* C8 amended: changed files ["src/foo.py"], tests/test_foo.py on disk and
\* tests/foo_test.py not on disk give ["tests/test_foo.py"].
C8_Companion ==
    (pc = "python" /\ git = GitOk(<<SrcFooPy>>) /\ TestsTestFooPy \in disk
        /\ TestsFooTestPy \notin disk)
        => tests = <<TestsTestFooPy>>

\* C8 witness: that call has returned
C8_Witness ==
    /\ pc = "python"
    /\ git = GitOk(<<SrcFooPy>>)
    /\ TestsTestFooPy \in disk
    /\ TestsFooTestPy \notin disk
    /\ tests = <<TestsTestFooPy>>

----------------------------------------------------------------------------
(* focus_command: one run of `devtriage focus`, runners.py:144-168 *)

AutoDetected == "Auto-detected test runner"
NoStrategySelected == "No focus strategy selected"
NoChangedTests == "No changed tests detected"
NoStrategyImplemented == "No focus strategy implemented for runner"
Running == "Running with focus targets"

\* runners.py:145-147: --pytest overrides --runner
ForcedRunner(a) == IF a.pytest THEN Some("pytest") ELSE a.runner

\* runners.py:148: `args.auto or not runner`
WantsDetection(a) ==
    \/ a.auto
    \/ ForcedRunner(a) = None
    \/ ForcedRunner(a) = Some("")

\* an abort on an empty target list whatever the filter is
NothingToRunIgnoringFilter(ts, k) == ts = <<>>

\* runners.py:159: `not tests and not args.k`
NothingToRun(ts, k) == ts = <<>> /\ ~StrTruthy(k)

\* runners.py:154-158: the mapper of the runner's family
TargetsFor(r, g, dk) ==
    IF r \in {"pytest", "nose"} THEN find_changed_python_tests(g, dk)
    ELSE find_changed_js_tests(g, dk)

\* runners.py:145-153
SelectRunner ==
    /\ pc = "SELECT_RUNNER"
    /\ IF WantsDetection(args)
       THEN LET detected == detect_test_runner(pkg, markers)
            IN  /\ detectorCalls' = detectorCalls + 1
                /\ IF Raised(detected)
                   THEN /\ runner' = ForcedRunner(args)
                        /\ message' = message
                        /\ pc' = "RAISED"
                   ELSE /\ runner' = Some(detected)
                        /\ IF detected \in Supported
                           THEN /\ message' = message \o <<AutoDetected>>
                                /\ pc' = "SELECT_TARGETS"
                           ELSE /\ message' = message \o <<AutoDetected, NoStrategySelected>>
                                /\ pc' = "ABORT"
       ELSE /\ detectorCalls' = detectorCalls
            /\ runner' = ForcedRunner(args)
            /\ IF Val(ForcedRunner(args)) \in Supported
               THEN message' = message /\ pc' = "SELECT_TARGETS"
               ELSE message' = message \o <<NoStrategySelected>> /\ pc' = "ABORT"
    /\ UNCHANGED <<args, pkg, markers, git, disk, tests, command, returns, writes, executed,
                   envs, sanitized>>

\* runners.py:154-161
SelectTargets ==
    /\ pc = "SELECT_TARGETS"
    /\ tests' = TargetsFor(Val(runner), git, disk)
    /\ IF NothingToRun(tests', args.k)
       THEN message' = message \o <<NoChangedTests>> /\ pc' = "ABORT"
       ELSE message' = message /\ pc' = "ASSEMBLE"
    /\ UNCHANGED <<args, pkg, markers, git, disk, runner, command, returns, writes,
                   detectorCalls, executed, envs, sanitized>>

\* runners.py:162-165: `not command` is true of None and of []
Assemble ==
    /\ pc = "ASSEMBLE"
    /\ command' = build_runner_command(runner, tests, args.k)
    /\ IF command' = None \/ Val(command') = <<>>
       THEN message' = message \o <<NoStrategyImplemented>> /\ pc' = "ABORT"
       ELSE message' = message /\ pc' = "DISPATCH"
    /\ UNCHANGED <<args, pkg, markers, git, disk, runner, tests, returns, writes,
                   detectorCalls, executed, envs, sanitized>>

\* runners.py:166-168: the command is handed to cmd_run
Dispatch ==
    /\ pc = "DISPATCH"
    /\ message' = message \o <<Running>>
    /\ executed' = Append(executed, Val(command))
    /\ pc' = "DONE"
    /\ UNCHANGED <<args, pkg, markers, git, disk, runner, tests, command, returns, writes,
                   detectorCalls, envs, sanitized>>

\* cli.py:60-85: --runner is one of SUPPORTED_RUNNERS or absent; --pytest and
\* --auto are switches; -k is any string or absent
ArgsOfCli ==
    {[runner |-> r, pytest |-> p, auto |-> a, k |-> k] :
        r \in {None} \cup {Some(x) : x \in Supported},
        p \in BOOLEAN, a \in BOOLEAN,
        k \in {None, Some(EmptyStr), Some(Str("slow"))}}

FocusPackages ==
    {PkgAbsent, PkgTruthyNonObject,
     PkgObject(FALSE, Missing, DepMap({"jest"}), Missing),
     PkgObject(FALSE,
               ScriptMap(<<Script("ci", Some(<<"mocha", " ", "--reporter", " ", "spec">>))>>),
               Missing, Missing)}
FocusMarkers == {EmptyMarkers, [EmptyMarkers EXCEPT !["setup.cfg"] = Readable(NoseText)]}
FocusLines == {SrcFooPy, TestsTestFooPy, SrcFooJs, ReadmeMd}
FocusDiskFiles == {TestsTestFooPy, TestsFooTestJs}

Init ==
    /\ args \in ArgsOfCli
    /\ pkg \in FocusPackages
    /\ markers \in FocusMarkers
    /\ git \in {GitMissing, GitFailed} \cup {GitOk(out) : out \in SeqsUpTo(FocusLines, MaxFocusChanged)}
    /\ disk \in SUBSET FocusDiskFiles
    /\ pc = "SELECT_RUNNER"
    /\ runner = None
    /\ tests = <<>>
    /\ command = None
    /\ returns = <<>>
    /\ writes = 0
    /\ detectorCalls = 0
    /\ executed = <<>>
    /\ message = <<>>
    /\ envs = <<>>
    /\ sanitized = None

Next == SelectRunner \/ SelectTargets \/ Assemble \/ Dispatch

Spec == Init /\ [][Next]_vars

----------------------------------------------------------------------------
(* Claims about focus_command, under Spec *)

\* the run has computed its target list
TargetsComputed ==
    \/ pc \in {"ASSEMBLE", "DISPATCH", "DONE"}
    \/ pc = "ABORT" /\ message # <<>> /\ Last(message) \in {NoChangedTests, NoStrategyImplemented}

\* C9: once the target list is computed, (a) if it is empty and no filter was
\* given (absent or ""), the run is in ABORT with the 'No changed tests
\* detected' message and no command was assembled or executed; (b) if it is
\* empty and a non-empty filter was given, the run is not aborted, it goes on
\* until it has dispatched, and what it dispatches is the runner's prefix and
\* the filter pair with no targets.
C9_EmptyTargets ==
    (TargetsComputed /\ tests = <<>>) =>
        IF ~ExpressionGiven
        THEN /\ pc = "ABORT"
             /\ Last(message) = NoChangedTests
             /\ command = None
             /\ executed = <<>>
        ELSE /\ pc \in {"ASSEMBLE", "DISPATCH", "DONE"}
             /\ pc # "DONE" => ENABLED Next
             /\ pc = "DONE" =>
                   executed = <<C5_Prefix(Val(runner)) \o <<C5_Flag(Val(runner)), Val(args.k)>> >>

\* C9 witness (a): no changed files and -k "" end in ABORT
C9_Witness ==
    /\ pc = "ABORT"
    /\ git = GitOk(<<>>)
    /\ args.k = Some(EmptyStr)
    /\ tests = <<>>
    /\ Last(message) = NoChangedTests
    /\ executed = <<>>

\* C10: once SELECT_RUNNER is over, a runner forced with --runner is the
\* runner in use and the Runner Detector was not called, whatever --auto and
\* --pytest are.
C10_ForcedRunnerUsed ==
    (args.runner # None /\ pc # "SELECT_RUNNER") =>
        runner = args.runner /\ detectorCalls = 0

\* C11: when the git query fails (git missing, so run_cmd raises, or git
\* exiting non-zero), get_git_changed_files is the empty list, the run does not
\* stop in SELECT_TARGETS, and it goes on as for an empty changed-file list:
\* ABORT with 'No changed tests detected' without a filter, a dispatch of the
\* prefix and the filter pair with one.
C11_GitFailureIsNoChanges ==
    git.status # "ok" =>
        /\ get_git_changed_files(git) = <<>>
        /\ pc = "SELECT_TARGETS" => ENABLED SelectTargets
        /\ TargetsComputed =>
              /\ tests = <<>>
              /\ IF ExpressionGiven
                 THEN /\ pc \in {"ASSEMBLE", "DISPATCH", "DONE"}
                      /\ pc = "DONE" =>
                            executed = <<C5_Prefix(Val(runner))
                                         \o <<C5_Flag(Val(runner)), Val(args.k)>> >>
                 ELSE /\ pc = "ABORT"
                      /\ Last(message) = NoChangedTests
                      /\ executed = <<>>

\* C11 witness: outside a repository, with changed-looking files on disk, a
\* filtered run has dispatched the filter alone
C11_Witness ==
    /\ git = GitFailed
    /\ disk = FocusDiskFiles
    /\ pc = "DONE"
    /\ tests = <<>>
    /\ executed = <<<<Str("pytest"), Str("-q"), Str("-k"), Str("slow")>>>>

\* C12: whenever the run is at or past ASSEMBLE its runner is one of pytest,
\* nose, jest, mocha, and no run is ever in ABORT with the 'No focus strategy
\* implemented for runner' message of the ASSEMBLE-to-ABORT transition.
C12_AssemblyRunnerSupported ==
    /\ pc \in {"ASSEMBLE", "DISPATCH", "DONE"} =>
          runner # None /\ Val(runner) \in {"pytest", "nose", "jest", "mocha"}
    /\ ~(pc = "ABORT" /\ message # <<>> /\ Last(message) = NoStrategyImplemented)

\* C12 witness: a detected runner has been assembled into a command
C12_Witness ==
    /\ pc = "DISPATCH"
    /\ detectorCalls = 1
    /\ runner = Some("nose")
    /\ command # None

----------------------------------------------------------------------------
(* sanitize_env, capture.py:50-70.  A key or a value is a sequence of      *)
(* chunks of text; no sensitive token straddles two chunks, so "token in   *)
(* text" is chunk membership.                                              *)

\* capture.py:17
SENSITIVE_KEYS == <<"KEY", "SECRET", "TOKEN", "PASSWORD">>

REDACTED == <<"***REDACTED***">>

\* str.upper() of a chunk
UpperChunk(c) ==
    CASE c = "secret" -> "SECRET"
      [] c = "token" -> "TOKEN"
      [] c = "Password" -> "PASSWORD"
      [] c = "Db" -> "DB"
      [] c = "normal" -> "NORMAL"
      [] c = "value" -> "VALUE"
      [] c = "hunter2" -> "HUNTER2"
      [] OTHER -> c

Upper(text) == [i \in DOMAIN text |-> UpperChunk(text[i])]

\* capture.py:53, 66: any(token in text for token in SENSITIVE_KEYS)
AnyToken(text) == \E i \in DOMAIN SENSITIVE_KEYS : Contains(text, SENSITIVE_KEYS[i])

\* capture.py:50-55, for a str; the values of an environment are str
sanitize_value(value) == IF AnyToken(Upper(value)) THEN REDACTED ELSE value

\* a redaction that compares the key as it is spelled
sanitize_env_case_sensitive(env) ==
    [key \in DOMAIN env |->
        IF AnyToken(key) THEN REDACTED ELSE sanitize_value(env[key])]

\* capture.py:63-70
sanitize_env(env) ==
    [key \in DOMAIN env |->
        IF AnyToken(Upper(key)) THEN REDACTED ELSE sanitize_value(env[key])]

ApiKey == <<"API", "_", "KEY">>
SecretToken == <<"secret", "_", "token">>
DbPassword == <<"Db", "_", "Password">>
Normal == <<"normal">>
PathVar == <<"PATH">>

EnvKeys == {ApiKey, SecretToken, DbPassword, Normal, PathVar}
EnvValues == {<<"value">>, <<"hunter2">>, <<"token", "-", "123">>}

Envs == UNION {[K -> EnvValues] : K \in {S \in SUBSET EnvKeys : Cardinality(S) <= MaxEnvKeys}}

InitSanitize ==
    /\ envs \in Envs \X Envs
    /\ sanitized = None
    /\ pc = "sanitize"
    /\ args = NoArgs
    /\ pkg = PkgAbsent
    /\ markers = EmptyMarkers
    /\ git = GitOk(<<>>)
    /\ disk = {}
    /\ runner = None
    /\ tests = <<>>
    /\ command = None
    /\ returns = <<>>
    /\ writes = 0
    /\ detectorCalls = 0
    /\ executed = <<>>
    /\ message = <<>>

\* sanitize_env called on each of the two environments
SanitizeCall ==
    /\ pc = "sanitize"
    /\ sanitized' = Some(<<sanitize_env(envs[1]), sanitize_env(envs[2])>>)
    /\ pc' = "sanitized"
    /\ UNCHANGED <<args, pkg, markers, git, disk, runner, tests, command, returns, writes,
                   detectorCalls, executed, message, envs>>

NextSanitize == SanitizeCall

SpecSanitize == InitSanitize /\ [][NextSanitize]_vars

----------------------------------------------------------------------------
(* Claim about sanitize_env, under SpecSanitize *)

\* the keys that contain KEY, SECRET, TOKEN or PASSWORD in some letter case
C13_SensitiveKeys == {ApiKey, SecretToken, DbPassword}
\* the values that contain none of them
C13_CleanValues == {<<"value">>, <<"hunter2">>}

C13_SameButSensitive(e1, e2) ==
    /\ DOMAIN e1 = DOMAIN e2
    /\ \A key \in DOMAIN e1 \ C13_SensitiveKeys : e1[key] = e2[key]

\* C13: sanitize_env returns a mapping with the keys of its input, in which
\* every sensitive key has the value '***REDACTED***' and every other key
\* whose value contains no sensitive token keeps its value; so two inputs that
\* differ only in the values of sensitive keys give the same output.
C13_SensitiveValuesHidden ==
    sanitized # None =>
        /\ \A i \in 1..2 :
              /\ DOMAIN Val(sanitized)[i] = DOMAIN envs[i]
              /\ \A key \in DOMAIN envs[i] :
                    /\ key \in C13_SensitiveKeys => Val(sanitized)[i][key] = REDACTED
                    /\ (key \notin C13_SensitiveKeys /\ envs[i][key] \in C13_CleanValues)
                          => Val(sanitized)[i][key] = envs[i][key]
        /\ C13_SameButSensitive(envs[1], envs[2]) => Val(sanitized)[1] = Val(sanitized)[2]

\* C13 witness: two environments that differ in the value of secret_token
\* only, sanitized to the same mapping, with `normal` kept
C13_Witness ==
    /\ sanitized # None
    /\ envs[1] = (SecretToken :> <<"hunter2">> @@ Normal :> <<"value">>)
    /\ envs[2] = (SecretToken :> <<"value">> @@ Normal :> <<"value">>)
    /\ Val(sanitized)[1] = (SecretToken :> REDACTED @@ Normal :> <<"value">>)
    /\ Val(sanitized)[2] = Val(sanitized)[1]

----------------------------------------------------------------------------
(* Claim about the order of the marker scans, under SpecDetect *)

C14_DeclaresJs(v) == v.t = "map" /\ v.keys \cap {"jest", "mocha"} # {}

C14_ScriptsNameJs(v) ==
    /\ v.t = "map"
    /\ \E i \in DOMAIN v.m :
          /\ v.m[i].value # None
          /\ \/ Contains(Val(v.m[i].value), "jest")
             \/ Contains(Val(v.m[i].value), "mocha")

\* the manifest names neither jest nor mocha, in a dependency key or a script
C14_NoJsEvidence ==
    pkg.kind = "object" =>
        /\ ~C14_DeclaresJs(pkg.dependencies)
        /\ ~C14_DeclaresJs(pkg.devDependencies)
        /\ ~C14_ScriptsNameJs(pkg.scripts)

C14_NoseEvidence ==
    \E n \in {"nose.cfg", "setup.cfg", "tox.ini"} :
        markers[n].state = "readable" /\ Contains(markers[n].text, "nosetests")

\* C14: when the manifest gives no jest or mocha evidence, pytest evidence
\* (pytest.ini or conftest.py present, or tox.ini, setup.cfg or pyproject.toml
\* containing "pytest") makes every call return pytest, nosetests sections or
\* not; nose is returned only with no pytest evidence and a nose.cfg, setup.cfg
\* or tox.ini containing "nosetests", and a marker without "pytest" does not
\* end the scan, so that case does return nose.
C14_PytestBeforeNose ==
    /\ \A i \in DOMAIN returns :
          returns[i] = "nose" => NoPytestEvidence /\ C14_NoseEvidence
    /\ C14_NoJsEvidence =>
          /\ ~NoPytestEvidence => AllReturns("pytest")
          /\ (NoPytestEvidence /\ C14_NoseEvidence) => AllReturns("nose")

----------------------------------------------------------------------------
(* Claim about find_changed_js_tests, under SpecMap *)

\* the changed paths that are tests by their name or their directory:
\* a.test.js, src/test_bar.js, src/bar_test.jsx, src/__tests__/foo.ts,
\* tests/helper.tsx, tests/foo.test.js
C15_DirectTargets ==
    {ATestJs, SrcTestBarJs, SrcBarTestJsx, DunderFooTs, TestsHelperTsx, TestsFooTestJs}
\* the other .js/.jsx/.ts/.tsx paths: src/foo.js, src/foo.ts
C15_SourceFiles == {SrcFooJs, SrcFooTs}
\* the paths with another extension: .py, .md, .mjs
C15_OtherExtension ==
    {SrcFooPy, TestsTestFooPy, TestsFooTestPy, SrcTestBarPy, ReadmeMd, SrcFooMjs}

\* tests/<stem>.test<extension>
C15_CompanionOf(path) == IF path = SrcFooJs THEN TestsFooTestJs ELSE TestsFooTestTs

C15_Contribution(path, dk) ==
    IF path \in C15_DirectTargets THEN {path}
    ELSE IF path \in C15_SourceFiles /\ C15_CompanionOf(path) \in dk
    THEN {C15_CompanionOf(path)}
    ELSE {}

C15_Changed == IF git.status = "ok" THEN {git.out[i] : i \in DOMAIN git.out} ELSE {}

\* C15: the JS mapper returns, for each changed .js/.jsx/.ts/.tsx path, the
\* path itself when its name contains ".test.", its stem starts with "test_"
\* or ends with "_test", or it lies under __tests__ or tests (no companion is
\* probed for it), and otherwise tests/<stem>.test<extension> when that file
\* is on disk; a path with any other extension contributes nothing.
C15_JsClassification ==
    /\ C15_Changed \subseteq C15_DirectTargets \cup C15_SourceFiles \cup C15_OtherExtension
    /\ pc = "js" =>
          {tests[i] : i \in DOMAIN tests}
             = UNION {C15_Contribution(path, disk) : path \in C15_Changed}

\* C15 witness: src/__tests__/foo.ts and src/foo.js changed, both companions
\* on disk: the first is returned itself, the second gives tests/foo.test.js
C15_Witness ==
    /\ pc = "js"
    /\ git = GitOk(<<DunderFooTs, SrcFooJs>>)
    /\ disk = DiskFiles
    /\ tests = <<DunderFooTs, TestsFooTestJs>>

----------------------------------------------------------------------------
(* Claim about the pass of focus_command through its states, under Spec *)

C16_FamilyTargets ==
    IF Val(runner) \in {"pytest", "nose"}
    THEN find_changed_python_tests(git, disk)
    ELSE find_changed_js_tests(git, disk)

\* runner selection, target selection and assembly are over, in that order
C16_Assembled ==
    /\ runner # None /\ Val(runner) \in Supported
    /\ tests = C16_FamilyTargets
    /\ command = build_runner_command(runner, tests, args.k)
    /\ command # None

\* C16: every run passes once through SELECT_RUNNER, SELECT_TARGETS and
\* ASSEMBLE and ends in DISPATCH done or in ABORT: a run that is in neither has
\* a next step; nothing is executed before DISPATCH; what is executed is one
\* command, build_runner_command(runner, targets of the runner's family,
\* filter); a run in ABORT has executed nothing.
C16_OnePassOneDispatch ==
    /\ pc \notin {"DONE", "ABORT"} => ENABLED Next
    /\ pc = "SELECT_RUNNER" => runner = None /\ tests = <<>> /\ command = None
    /\ pc = "SELECT_TARGETS" =>
          runner # None /\ Val(runner) \in Supported /\ tests = <<>> /\ command = None
    /\ pc = "ASSEMBLE" =>
          runner # None /\ Val(runner) \in Supported /\ tests = C16_FamilyTargets
             /\ command = None
    /\ pc = "DISPATCH" => C16_Assembled
    /\ pc # "DONE" => executed = <<>>
    /\ pc = "DONE" => C16_Assembled /\ executed = <<Val(command)>>

----------------------------------------------------------------------------
(* The legacy cmd_focus, devtriage.py:321-335, and the claim that it selects *)
(* the runner as focus_command does, under Spec                             *)

\* devtriage.py:323: `if args.runner`
RunnerGiven(a) == a.runner # None /\ a.runner # Some("")

\* devtriage.py:323-329: the detector is called in the last branch only, and
\* there `args.auto or not args.runner` is true
cmd_focus_detects(a) == ~RunnerGiven(a) /\ ~a.pytest

\* devtriage.py:322-330: the runner cmd_focus goes on with
cmd_focus_runner(a, p, ms) ==
    IF RunnerGiven(a) THEN a.runner
    ELSE IF a.pytest THEN Some("pytest")
    ELSE Some(detect_test_runner(p, ms))

\* C17: for every combination of --runner, --pytest and --auto and every
\* detector result, once runner selection is over focus_command has called the
\* Runner Detector exactly when cmd_focus calls it, and has the runner
\* cmd_focus selects.
C17_SameRunnerSelection ==
    pc # "SELECT_RUNNER" =>
        /\ detectorCalls = (IF cmd_focus_detects(args) THEN 1 ELSE 0)
        /\ pc # "RAISED" => runner = cmd_focus_runner(args, pkg, markers)

====
